---- MODULE Spec2Model ----
(***************************************************************************)
(* Model of client/web/web.go: the edge router of `micro web`.             *)
(*                                                                         *)
(*   - request dispatch: AccessGate -> srv.ServeHTTP -> srv.proxy director *)
(*     or the dashboard route table registered in Run;                     *)
(*   - Run's ACME / TLS start-up sequence;                                 *)
(*   - srv.indexHandler's service listing.                                 *)
(*                                                                         *)
(* Strings that the code takes apart are sequences of tokens: a URL path   *)
(* is a sequence in which "/" is the separator token, a host name is its   *)
(* sequence of labels, a registry name is a sequence of characters in      *)
(* which ".web." is one token.                                             *)
(***************************************************************************)
EXTENDS Integers, Sequences, FiniteSets, TLC

VARIABLES
    reqs,       \* per-request state: the *http.Request and where it is in the handler chain
    registry,   \* Directory: the short names registered under Namespace + "." + Type
    changes,    \* number of Directory changes so far
    Resolver,   \* package variable Resolver: "path" or "subdomain"
    run,        \* state of Run (start-up of the process)
    idx         \* state of one srv.indexHandler call

vars == <<reqs, registry, changes, Resolver, run, idx>>

----------------------------------------------------------------------------
(* Bounds *)

NumReq == 2          \* requests in flight
MaxChanges == 2      \* Directory changes during a behaviour
MaxPass == 3         \* passes of one request through the handler chain
MaxNameLen == 5      \* tokens in a registry name listed by indexHandler

Requests == 1..NumReq

----------------------------------------------------------------------------
(* Strings as token sequences *)

RECURSIVE SplitSeq(_, _)
\* strings.Split(s, sep) where sep is one token
SplitSeq(s, sep) ==
    IF s = <<>> THEN << <<>> >>
    ELSE LET rest == SplitSeq(Tail(s), sep) IN
         IF Head(s) = sep
         THEN << <<>> >> \o rest
         ELSE << <<Head(s)>> \o Head(rest) >> \o Tail(rest)

RECURSIVE JoinSeq(_, _)
\* strings.Join(parts, sep)
JoinSeq(parts, sep) ==
    IF parts = <<>> THEN <<>>
    ELSE IF Len(parts) = 1 THEN Head(parts)
    ELSE Head(parts) \o <<sep>> \o JoinSeq(Tail(parts), sep)

----------------------------------------------------------------------------
(* Directory, SelectionPolicy and the Resolver strategies *)

Names == {"chat", "foo", "not-found"}
Addrs == {<<"10.0.0.1:8080">>, <<"10.0.0.2:8080">>}

NotResolved == [ok |-> FALSE]

\* an *res.Endpoint
Endpoint(name, host, path) == [Name |-> name, Host |-> host, Path |-> path]

\* the lookup and instance selection shared by both strategies: every live
\* address of the service is a possible pick of the SelectionPolicy
Select(name, path, reg) ==
    IF name \in reg
    THEN {[ok |-> TRUE, ep |-> Endpoint(name, a, path)] : a \in Addrs}
    ELSE {NotResolved}

\* path strategy: /<short-name>/<remainder>
ResolvePath(path, reg) ==
    LET parts == SplitSeq(path, "/") IN
    IF Len(parts) < 2 THEN {NotResolved}
    ELSE IF parts[2] = <<>> THEN {NotResolved}
    ELSE Select(parts[2][1],
                <<"/">> \o JoinSeq(SubSeq(parts, 3, Len(parts)), "/"),
                reg)

\* subdomain strategy: the labels left of the registrable domain (the public
\* suffix of every host here is its last label); the path is kept whole
ResolveSubdomain(host, path, reg) ==
    LET sub == SubSeq(host, 1, Len(host) - 2) IN
    IF sub = <<>> THEN {NotResolved}
    ELSE Select(sub[1], path, reg)

\* s.resolver.Resolve(r): the set of results the call can return
Resolve(strategy, host, path, reg) ==
    IF strategy = "subdomain"
    THEN ResolveSubdomain(host, path, reg)
    ELSE ResolvePath(path, reg)

----------------------------------------------------------------------------
(* The request *)

\* r.Context().Value(res.Endpoint{}): the request context is the chain of
\* values stored under the key; the most recent one shadows the others
HasEndpoint(ctx) == ctx # <<>>
CtxEndpoint(ctx) == ctx[Len(ctx)]
WithValue(ctx, ep) == Append(ctx, ep)

Absent ==
    [pc |-> "absent", pass |-> 0,
     Host |-> <<>>, URLHost |-> <<>>, URLScheme |-> "", URLPath |-> <<>>,
     Header |-> <<>>, ctx |-> <<>>,
     inHost |-> <<>>, inURLHost |-> <<>>, inScheme |-> "", inPath |-> <<>>,
     evaluated |-> <<>>, entryCtx |-> <<>>, served |-> FALSE,
     resolves |-> 0, ctxSets |-> 0, via |-> "none", catchAll |-> FALSE,
     admitted |-> FALSE, outcome |-> "none"]

\* a request as the listener receives it
Inbound(host, urlHost, scheme, path) ==
    [Absent EXCEPT !.pc = "gate", !.pass = 1,
                   !.Host = host, !.URLHost = urlHost,
                   !.URLScheme = scheme, !.URLPath = path,
                   !.inHost = host, !.inURLHost = urlHost,
                   !.inScheme = scheme, !.inPath = path]

----------------------------------------------------------------------------
(* AccessGate: the auth wrapper installed by Run in front of the handler *)

\* resolves the request with the shared Resolver, evaluates the caller's
\* access to what it resolved, and on allow hands the request on with the
\* resolved endpoint (if any) in its context; otherwise denies
AccessGate(rq, res, allow) ==
    LET seen == IF res.ok THEN <<res.ep>> ELSE <<>>
        g == [rq EXCEPT !.evaluated = seen,
                        !.ctx = IF res.ok THEN WithValue(rq.ctx, res.ep) ELSE rq.ctx,
                        !.ctxSets = IF res.ok THEN rq.ctxSets + 1 ELSE rq.ctxSets]
    IN IF allow
       THEN [g EXCEPT !.pc = "serve"]
       ELSE [g EXCEPT !.pc = "done", !.outcome = "denied"]

----------------------------------------------------------------------------
(* srv.ServeHTTP *)

\* set defaults on the request
Defaults(rq) ==
    [rq EXCEPT !.URLHost = IF Len(rq.URLHost) = 0 THEN rq.Host ELSE rq.URLHost,
               !.URLScheme = IF rq.URLScheme = "" THEN "http" ELSE rq.URLScheme]

\* variant: resolves before looking at the context
ServeHTTPResolveFirst(rq, res) ==
    LET d == [Defaults(rq) EXCEPT !.served = TRUE, !.entryCtx = rq.ctx,
                                  !.resolves = rq.resolves + 1] IN
    IF HasEndpoint(d.ctx)
    THEN [d EXCEPT !.pc = "proxy", !.via = "direct"]
    ELSE IF ~res.ok
    THEN [d EXCEPT !.pc = "router"]
    ELSE [d EXCEPT !.ctx = WithValue(d.ctx, res.ep), !.ctxSets = d.ctxSets + 1,
                   !.pc = "proxy", !.via = "direct"]

\* variant: never looks at the context and stores what it resolved
ServeHTTPOverwrite(rq, res) ==
    LET d == [Defaults(rq) EXCEPT !.served = TRUE, !.entryCtx = rq.ctx,
                                  !.resolves = rq.resolves + 1] IN
    IF ~res.ok
    THEN [d EXCEPT !.pc = "router"]
    ELSE [d EXCEPT !.ctx = WithValue(d.ctx, res.ep), !.ctxSets = d.ctxSets + 1,
                   !.pc = "proxy", !.via = "direct"]

\* variant: sends a request that already has its endpoint to the mux
ServeHTTPPreResolvedToRouter(rq, res) ==
    LET d == [Defaults(rq) EXCEPT !.served = TRUE, !.entryCtx = rq.ctx] IN
    IF HasEndpoint(d.ctx)
    THEN [d EXCEPT !.pc = "router"]
    ELSE IF ~res.ok
    THEN [d EXCEPT !.pc = "router", !.resolves = d.resolves + 1]
    ELSE [d EXCEPT !.ctx = WithValue(d.ctx, res.ep), !.ctxSets = d.ctxSets + 1,
                   !.resolves = d.resolves + 1,
                   !.pc = "proxy", !.via = "direct"]

\* res is what s.resolver.Resolve(r) returns if it is called
ServeHTTPStep(rq, res) ==
    LET d == [Defaults(rq) EXCEPT !.served = TRUE, !.entryCtx = rq.ctx] IN
    IF HasEndpoint(d.ctx)
    THEN \* s.prx.ServeHTTP(w, r)
         [d EXCEPT !.pc = "proxy", !.via = "direct"]
    ELSE IF ~res.ok
    THEN \* s.Router.ServeHTTP(w, r)
         [d EXCEPT !.pc = "router", !.resolves = d.resolves + 1]
    ELSE \* *r = *r.Clone(context.WithValue(...)); s.prx.ServeHTTP(w, r)
         [d EXCEPT !.ctx = WithValue(d.ctx, res.ep), !.ctxSets = d.ctxSets + 1,
                   !.resolves = d.resolves + 1,
                   !.pc = "proxy", !.via = "direct"]

----------------------------------------------------------------------------
(* The proxy director *)

BasePath(name) == <<"/", name>>

\* variant: leaves the inbound scheme
directorKeepScheme(rq) ==
    IF ~HasEndpoint(rq.ctx)
    THEN [rq EXCEPT !.URLPath = <<"/", "not-found">>]
    ELSE LET endpoint == CtxEndpoint(rq.ctx) IN
         [rq EXCEPT !.Header = BasePath(endpoint.Name),
                    !.URLHost = endpoint.Host,
                    !.URLPath = endpoint.Path,
                    !.Host = endpoint.Host]

director(rq) ==
    IF ~HasEndpoint(rq.ctx)
    THEN [rq EXCEPT !.URLPath = <<"/", "not-found">>]
    ELSE LET endpoint == CtxEndpoint(rq.ctx) IN
         [rq EXCEPT !.Header = BasePath(endpoint.Name),
                    !.URLHost = endpoint.Host,
                    !.URLPath = endpoint.Path,
                    !.URLScheme = "http",
                    !.Host = endpoint.Host]

----------------------------------------------------------------------------
(* The dashboard route table registered in Run *)

\* first character in [a-zA-Z0-9]
StartsAlnum(seg) == seg \notin {"/", "_x", "-x", ""}

\* the handler mux picks for a path: routes are tried in registration order
Route(path) ==
    IF path = <<"/", "favicon.ico">> THEN "faviconHandler"
    ELSE IF path = <<"/", "not-found">> THEN "notFoundHandler"
    ELSE IF path = <<"/", "client">> THEN "callHandler"
    ELSE IF path = <<"/", "services">> THEN "registryHandler"
    ELSE IF Len(path) = 4 /\ SubSeq(path, 1, 3) = <<"/", "service", "/">>
                          /\ path[4] # "/" THEN "registryHandler"
    ELSE IF path = <<"/", "rpc">> THEN "rpc"
    ELSE IF Len(path) >= 2 /\ path[1] = "/" /\ StartsAlnum(path[2]) THEN "proxy"
    ELSE IF path = <<"/">> THEN "indexHandler"
    ELSE "mux404"

\* s.Router.ServeHTTP(w, r)
RouterServe(rq) ==
    LET h == Route(rq.URLPath) IN
    IF h = "proxy"
    THEN [rq EXCEPT !.pc = "proxy", !.via = "router", !.catchAll = TRUE]
    ELSE IF h = "notFoundHandler"
    THEN [rq EXCEPT !.pc = "done", !.outcome = "notfound"]
    ELSE IF h = "mux404"
    THEN [rq EXCEPT !.pc = "done", !.outcome = "mux404"]
    ELSE [rq EXCEPT !.pc = "done", !.outcome = "dashboard"]

----------------------------------------------------------------------------
(* Actions of the request path *)

Gate(r) ==
    /\ reqs[r].pc = "gate"
    /\ \E res \in Resolve(Resolver, reqs[r].Host, reqs[r].URLPath, registry),
          allow \in BOOLEAN :
            reqs' = [reqs EXCEPT ![r] = AccessGate(reqs[r], res, allow)]
    /\ UNCHANGED <<registry, changes, Resolver, run, idx>>

ServeHTTP(r) ==
    /\ reqs[r].pc = "serve"
    /\ \E res \in Resolve(Resolver, reqs[r].Host, reqs[r].URLPath, registry) :
            reqs' = [reqs EXCEPT ![r] =
                       [ServeHTTPStep(reqs[r], res) EXCEPT !.admitted = TRUE]]
    /\ UNCHANGED <<registry, changes, Resolver, run, idx>>

RouterDispatch(r) ==
    /\ reqs[r].pc = "router"
    /\ reqs' = [reqs EXCEPT ![r] = RouterServe(reqs[r])]
    /\ UNCHANGED <<registry, changes, Resolver, run, idx>>

\* variant: the director reads an endpoint kept in state shared by all requests
ProxyShared(r) ==
    /\ reqs[r].pc = "proxy"
    /\ \E q \in Requests :
          reqs' = [reqs EXCEPT ![r] =
                     [director([reqs[r] EXCEPT !.ctx = reqs[q].ctx])
                        EXCEPT !.ctx = reqs[r].ctx, !.pc = "forward"]]
    /\ UNCHANGED <<registry, changes, Resolver, run, idx>>

\* s.prx.ServeHTTP(w, r): the reverse proxy runs the director on the request
Proxy(r) ==
    /\ reqs[r].pc = "proxy"
    /\ reqs' = [reqs EXCEPT ![r] = [director(reqs[r]) EXCEPT !.pc = "forward"]]
    /\ UNCHANGED <<registry, changes, Resolver, run, idx>>

\* the transport sends the rewritten request to the endpoint's instance
Forward(r) ==
    /\ reqs[r].pc = "forward"
    /\ HasEndpoint(reqs[r].ctx)
    /\ reqs' = [reqs EXCEPT ![r] = [@ EXCEPT !.pc = "done", !.outcome = "backend"]]
    /\ UNCHANGED <<registry, changes, Resolver, run, idx>>

\* the request rewritten to /not-found is sent to r.URL.Host, the inbound
\* host; when that is this router, it arrives at the listener as a new
\* request with the same Host header and an empty context
Loopback(r) ==
    /\ reqs[r].pc = "forward"
    /\ ~HasEndpoint(reqs[r].ctx)
    /\ reqs[r].pass < MaxPass
    /\ reqs' = [reqs EXCEPT ![r] =
                  [@ EXCEPT !.pc = "gate", !.pass = @ + 1,
                            !.URLHost = <<>>, !.URLScheme = "",
                            !.ctx = <<>>, !.evaluated = <<>>, !.entryCtx = <<>>,
                            !.served = FALSE, !.resolves = 0, !.via = "none"]]
    /\ UNCHANGED <<registry, changes, Resolver, run, idx>>

\* ... and when nothing answers cleartext HTTP at r.URL.Host, the reverse
\* proxy answers the caller with a gateway error
ForwardFail(r) ==
    /\ reqs[r].pc = "forward"
    /\ ~HasEndpoint(reqs[r].ctx)
    /\ reqs' = [reqs EXCEPT ![r] = [@ EXCEPT !.pc = "done", !.outcome = "badgateway"]]
    /\ UNCHANGED <<registry, changes, Resolver, run, idx>>

\* the Directory's owner registers or deregisters a service
DirectoryChange ==
    /\ changes < MaxChanges
    /\ \E n \in Names :
          registry' = IF n \in registry THEN registry \ {n} ELSE registry \cup {n}
    /\ changes' = changes + 1
    /\ UNCHANGED <<reqs, Resolver, run, idx>>

RequestNext ==
    \E r \in Requests :
        \/ Gate(r)
        \/ ServeHTTP(r)
        \/ RouterDispatch(r)
        \/ Proxy(r)
        \/ Forward(r)
        \/ Loopback(r)
        \/ ForwardFail(r)

----------------------------------------------------------------------------
(* Run: ACME / TLS set-up and start of the listener *)

RunIdle ==
    [pc |-> "none", EnableACME |-> FALSE, AcmeFlag |-> "", ACMEProvider |-> "autocert",
     ACMEChallengeProvider |-> "cloudflare", CFToken |-> <<>>, DNSProviderOk |-> TRUE,
     EnableTLS |-> FALSE, TLSOk |-> TRUE, StartOk |-> TRUE, RunOk |-> TRUE,
     StopOk |-> TRUE, started |-> FALSE, bound |-> FALSE, exited |-> FALSE,
     status |-> 0]

\* log.Fatal: the process exits with status 1
Fatal(c) == [c EXCEPT !.pc = "exited", !.exited = TRUE, !.status = 1]

\* variant: goes on with an empty CF_API_TOKEN
ACMESetupNoTokenCheck(c) ==
    IF c.EnableACME
    THEN IF c.ACMEProvider = "autocert" THEN [c EXCEPT !.pc = "start"]
         ELSE IF c.ACMEProvider = "certmagic"
         THEN IF c.ACMEChallengeProvider # "cloudflare" THEN Fatal(c)
              ELSE IF ~c.DNSProviderOk THEN Fatal(c)
              ELSE [c EXCEPT !.pc = "start"]
         ELSE Fatal(c)
    ELSE IF c.EnableTLS
    THEN IF ~c.TLSOk
         THEN [c EXCEPT !.pc = "exited", !.exited = TRUE, !.status = 0]
         ELSE [c EXCEPT !.pc = "start"]
    ELSE [c EXCEPT !.pc = "start"]

\* if ctx.Bool("enable_acme") { switch ACMEProvider ... } else if enable_tls
ACMESetup(c) ==
    IF c.EnableACME
    THEN IF c.ACMEProvider = "autocert" THEN [c EXCEPT !.pc = "start"]
         ELSE IF c.ACMEProvider = "certmagic"
         THEN IF c.ACMEChallengeProvider # "cloudflare" THEN Fatal(c)
              ELSE IF Len(c.CFToken) = 0 THEN Fatal(c)
              ELSE IF ~c.DNSProviderOk THEN Fatal(c)
              ELSE [c EXCEPT !.pc = "start"]
         ELSE Fatal(c)
    ELSE IF c.EnableTLS
    THEN IF ~c.TLSOk
         THEN \* fmt.Println(err.Error()); return
              [c EXCEPT !.pc = "exited", !.exited = TRUE, !.status = 0]
         ELSE [c EXCEPT !.pc = "start"]
    ELSE [c EXCEPT !.pc = "start"]

\* the acme_provider flag overrides the package default
RunFlags ==
    /\ run.pc = "init"
    /\ run' = [run EXCEPT !.pc = "acme",
                          !.ACMEProvider = IF run.AcmeFlag # "" THEN run.AcmeFlag
                                           ELSE @]
    /\ UNCHANGED <<reqs, registry, changes, Resolver, idx>>

RunACME ==
    /\ run.pc = "acme"
    /\ run' = ACMESetup(run)
    /\ UNCHANGED <<reqs, registry, changes, Resolver, idx>>

\* srv.Start(): the listener binds, or log.Fatal(err)
RunStart ==
    /\ run.pc = "start"
    /\ run' = IF run.StartOk
              THEN [run EXCEPT !.pc = "serving", !.started = TRUE, !.bound = TRUE]
              ELSE Fatal([run EXCEPT !.started = TRUE])
    /\ UNCHANGED <<reqs, registry, changes, Resolver, idx>>

\* service.Run() returns
RunService ==
    /\ run.pc = "serving"
    /\ run' = IF run.RunOk THEN [run EXCEPT !.pc = "stop"] ELSE Fatal(run)
    /\ UNCHANGED <<reqs, registry, changes, Resolver, idx>>

\* srv.Stop()
RunStop ==
    /\ run.pc = "stop"
    /\ run' = IF run.StopOk
              THEN [run EXCEPT !.pc = "exited", !.exited = TRUE, !.bound = FALSE]
              ELSE Fatal(run)
    /\ UNCHANGED <<reqs, registry, changes, Resolver, idx>>

RunNext == RunFlags \/ RunACME \/ RunStart \/ RunService \/ RunStop

----------------------------------------------------------------------------
(* srv.indexHandler *)

Sep == ".web."
Chars == {"a", "3", "6"}
Tokens == Chars \cup {Sep}

\* strings.ToUpper on one character
UpperChar(c) == IF c = "a" THEN "A" ELSE c
ToUpper(s) == [i \in 1..Len(s) |-> UpperChar(s[i])]

\* strings.ContainsAny(s, chars)
ContainsAny(s, chars) == \E i \in 1..Len(s) : s[i] \in chars

\* byte order of the characters
Ord(c) == CASE c = "3" -> 51 [] c = "6" -> 54 [] c = "A" -> 65 [] c = "a" -> 97
            [] OTHER -> 0

RECURSIVE StrLess(_, _)
\* a < b on strings
StrLess(a, b) ==
    IF b = <<>> THEN FALSE
    ELSE IF a = <<>> THEN TRUE
    ELSE IF Ord(Head(a)) # Ord(Head(b)) THEN Ord(Head(a)) < Ord(Head(b))
    ELSE StrLess(Tail(a), Tail(b))

\* the characters the acronym test looks for
AcronymDigits == {"0", "1", "2", "3", "4", "5", "7", "8", "9"}

\* the loop body: the webService of one registry name, <<>> when it is no web app
WebService(srvName, resolver, domain) ==
    LET comps == SplitSeq(srvName, Sep) IN
    IF Len(comps) = 1 THEN <<>>
    ELSE LET name == comps[2]
             link == IF resolver = "subdomain" /\ Len(domain) > 0
                     THEN <<"https://">> \o name \o <<".">> \o domain
                     ELSE <<"/">> \o name \o <<"/">>
             shown == IF Len(name) <= 3 /\ ContainsAny(name, AcronymDigits)
                      THEN ToUpper(name) ELSE name
         IN << [Name |-> shown, Link |-> link, short |-> name] >>

RECURSIVE WebServices(_, _, _)
WebServices(services, resolver, domain) ==
    IF services = <<>> THEN <<>>
    ELSE WebService(Head(services), resolver, domain)
            \o WebServices(Tail(services), resolver, domain)

\* sort.Slice by Name: any ordering of the entries that is sorted
Sorted(list) ==
    LET n == Len(list)
        perms == {f \in [1..n -> 1..n] : \A i, j \in 1..n : i # j => f[i] # f[j]}
    IN {[i \in 1..n |-> list[f[i]]] : f \in
          {g \in perms : \A i \in 1..n, j \in 1..n :
                            i < j => ~StrLess(list[g[j]].Name, list[g[i]].Name)}}

IdxIdle == [pc |-> "none", services |-> <<>>, domain |-> <<>>, out |-> <<>>]

IndexHandler ==
    /\ idx.pc = "call"
    /\ \E out \in Sorted(WebServices(idx.services, Resolver, idx.domain)) :
          idx' = [idx EXCEPT !.pc = "done", !.out = out]
    /\ UNCHANGED <<reqs, registry, changes, Resolver, run>>

----------------------------------------------------------------------------
(* Specifications *)

Hosts == {<<"chat", "example", "com">>, <<"foo", "example", "com">>, <<"example", "com">>}
URLHosts == {<<>>, <<"other", "example", "com">>}
Schemes == {"", "https"}
Paths == {<<"/">>, <<"/", "chat">>, <<"/", "chat", "/", "messages">>,
          <<"/", "foo", "/", "bar">>, <<"/", "not-found">>, <<"/", "client">>}

\* one request, any Directory, Directory changes at any time
Init ==
    /\ \E h \in Hosts, u \in URLHosts, s \in Schemes, p \in Paths :
          reqs = [r \in Requests |-> IF r = 1 THEN Inbound(h, u, s, p) ELSE Absent]
    /\ registry \in SUBSET Names
    /\ changes = 0
    /\ Resolver \in {"path", "subdomain"}
    /\ run = RunIdle
    /\ idx = IdxIdle

Next == RequestNext \/ DirectoryChange

Spec == Init /\ [][Next]_vars

\* concurrent requests against a fixed Directory
ConcPaths == {<<"/", "chat", "/", "messages">>, <<"/", "foo", "/", "bar">>,
              <<"/", "bar">>}

InitConc ==
    /\ reqs \in [Requests -> {Inbound(<<"example", "com">>, <<>>, "", p) : p \in ConcPaths}]
    /\ registry = {"chat", "foo"}
    /\ changes = MaxChanges
    /\ Resolver = "path"
    /\ run = RunIdle
    /\ idx = IdxIdle

SpecConc == InitConc /\ [][RequestNext]_vars

\* start-up
InitRun ==
    /\ reqs = [r \in Requests |-> Absent]
    /\ registry = {}
    /\ changes = 0
    /\ Resolver = "path"
    /\ idx = IdxIdle
    /\ \E acme \in BOOLEAN, flag \in {"", "autocert", "certmagic", "bogus"},
          ch \in {"cloudflare", "route53"}, tok \in {<<>>, <<"t">>},
          dns \in BOOLEAN, tls \in BOOLEAN, tlsOk \in BOOLEAN,
          startOk \in BOOLEAN, runOk \in BOOLEAN, stopOk \in BOOLEAN :
          run = [RunIdle EXCEPT !.pc = "init", !.EnableACME = acme, !.AcmeFlag = flag,
                                !.ACMEChallengeProvider = ch, !.CFToken = tok,
                                !.DNSProviderOk = dns, !.EnableTLS = tls,
                                !.TLSOk = tlsOk, !.StartOk = startOk,
                                !.RunOk = runOk, !.StopOk = stopOk]

SpecRun == InitRun /\ [][RunNext]_vars

\* Run is one goroutine that runs on until it exits or blocks in service.Run
SpecRunFair == SpecRun /\ WF_vars(RunFlags) /\ WF_vars(RunACME)

\* the index page
RECURSIVE SeqsUpTo(_, _)
SeqsUpTo(S, n) ==
    IF n = 0 THEN {<<>>}
    ELSE LET shorter == SeqsUpTo(S, n - 1) IN
         shorter \cup {Append(s, x) : s \in shorter, x \in S}

RegistryNames == SeqsUpTo(Tokens, MaxNameLen) \ {<<>>}
OtherNames == {<<"a", Sep, "a", "3">>, <<"a", Sep, "a">>}

InitIndex ==
    /\ reqs = [r \in Requests |-> Absent]
    /\ registry = {}
    /\ changes = 0
    /\ Resolver \in {"path", "subdomain"}
    /\ run = RunIdle
    /\ \E n \in RegistryNames, d \in {<<>>, <<"example", "com">>} :
          \E l \in {<<n>>} \cup {<<n, m>> : m \in OtherNames} :
             idx = [IdxIdle EXCEPT !.pc = "call", !.services = l, !.domain = d]

SpecIndex == InitIndex /\ [][IndexHandler]_vars

----------------------------------------------------------------------------
(* Properties *)

\* the director has run on the request
Forwarded(rq) ==
    \/ rq.pc = "forward"
    \/ rq.pc = "done" /\ rq.outcome \in {"backend", "badgateway"}

\* the outbound request is the rewrite for endpoint e
RewrittenFor(rq, e) ==
    /\ rq.Header = <<"/", e.Name>>
    /\ rq.URLHost = e.Host
    /\ rq.URLPath = e.Path

\* C1: a request whose context already holds an Endpoint when srv.ServeHTTP
\* starts is handed straight to the proxy, is rewritten for exactly that
\* endpoint, and ServeHTTP never calls Resolver.Resolve for it.
SingleResolution ==
    \A r \in Requests :
        (reqs[r].served /\ HasEndpoint(reqs[r].entryCtx)) =>
            /\ reqs[r].resolves = 0
            /\ reqs[r].via = "direct"
            /\ reqs[r].pc \in {"proxy", "forward", "done"}
            /\ reqs[r].outcome \in {"none", "backend"}
            /\ Forwarded(reqs[r]) => RewrittenFor(reqs[r], CtxEndpoint(reqs[r].entryCtx))

SingleResolutionWitness ==
    \E r \in Requests :
        /\ reqs[r].served
        /\ HasEndpoint(reqs[r].entryCtx)
        /\ reqs[r].outcome = "backend"
        /\ changes > 0

\* C2: every request the AccessGate allowed and the proxy forwarded to a
\* backend went to the endpoint the access check evaluated for it, whatever
\* the Directory did in between.
ForwardedToCheckedEndpoint ==
    \A r \in Requests :
        reqs[r].outcome = "backend" =>
            /\ reqs[r].evaluated # <<>>
            /\ RewrittenFor(reqs[r], reqs[r].evaluated[1])

\* C3: a request that went through the director with Endpoint E in its
\* context goes out with base-path header "/" + E.Name, URL host E.Host, URL
\* path E.Path and scheme "http", whatever it came in with; GET
\* /chat/messages under the path strategy goes out with path /messages and
\* base path /chat.
ProxyRewrite ==
    \A r \in Requests :
        (Forwarded(reqs[r]) /\ HasEndpoint(reqs[r].ctx)) =>
            LET E == CtxEndpoint(reqs[r].ctx) IN
            /\ reqs[r].Header = <<"/">> \o <<E.Name>>
            /\ reqs[r].URLHost = E.Host
            /\ reqs[r].URLPath = E.Path
            /\ reqs[r].URLScheme = "http"
            /\ (Resolver = "path" /\ reqs[r].pass = 1
                  /\ reqs[r].inPath = <<"/", "chat", "/", "messages">>) =>
                    /\ reqs[r].URLPath = <<"/", "messages">>
                    /\ reqs[r].Header = <<"/", "chat">>
                    /\ reqs[r].URLHost \in Addrs

ProxyRewriteWitness ==
    \E r \in Requests :
        /\ reqs[r].outcome = "backend"
        /\ reqs[r].inScheme = "https"
        /\ reqs[r].inURLHost # <<>>
        /\ Resolver = "path"
        /\ reqs[r].inPath = <<"/", "chat", "/", "messages">>
        /\ reqs[r].URLPath = <<"/", "messages">>

\* C4: a request for an unregistered service name, which ServeHTTP could not
\* resolve and the route table gave to the catch-all proxy handler, ends
\* with the not-found page: never a 5xx, never a forward to a backend.
UnregisteredEndsNotFound ==
    \A r \in Requests :
        (reqs[r].catchAll /\ reqs[r].pc = "done") => reqs[r].outcome = "notfound"

\* the ACME configurations that must stop start-up
BadACME(c) ==
    /\ c.EnableACME
    /\ \/ c.ACMEProvider \notin {"autocert", "certmagic"}
       \/ c.ACMEProvider = "certmagic" /\ c.ACMEChallengeProvider # "cloudflare"
       \/ c.ACMEProvider = "certmagic" /\ Len(c.CFToken) = 0

\* C5: with ACME enabled and an unknown provider, or certmagic with a
\* challenge provider other than cloudflare, or certmagic with an empty
\* CF_API_TOKEN, Run exits with a non-zero status and srv.Start is never
\* reached, so no listener binds.
FatalACMEStopsStartup ==
    /\ [](( run.pc \notin {"none", "init"} /\ BadACME(run)) =>
            /\ ~run.started
            /\ ~run.bound
            /\ run.pc \in {"acme", "exited"}
            /\ run.exited => run.status # 0)
    /\ ((run.pc = "acme" /\ BadACME(run)) ~> (run.exited /\ run.status # 0))

FatalACMEWitness ==
    /\ run.exited
    /\ run.EnableACME
    /\ run.ACMEProvider = "certmagic"
    /\ run.ACMEChallengeProvider = "cloudflare"
    /\ Len(run.CFToken) = 0
    /\ run.status = 1
    /\ ~run.started

\* C6: a request's context holds at most one Endpoint, it is stored at most
\* once by AccessGate and ServeHTTP together, and once present it is never
\* replaced or shadowed.
ContextSetAtMostOnce ==
    /\ [](\A r \in Requests : Len(reqs[r].ctx) <= 1 /\ reqs[r].ctxSets <= 1)
    /\ [][\A r \in Requests :
            HasEndpoint(reqs[r].ctx) => reqs'[r].ctx = reqs[r].ctx]_vars

ContextSetWitness ==
    \E r \in Requests :
        /\ reqs[r].pc = "done"
        /\ reqs[r].served
        /\ reqs[r].evaluated # <<>>
        /\ reqs[r].ctx = reqs[r].evaluated
        /\ reqs[r].ctxSets = 1
        /\ changes > 0

\* C7: when the proxy handler is invoked through the route table the
\* request's context holds no Endpoint, so the director only rewrites the
\* path to /not-found and never rewrites the request toward a backend.
CatchAllOnlyNotFound ==
    \A r \in Requests :
        reqs[r].via = "router" =>
            /\ ~HasEndpoint(reqs[r].ctx)
            /\ reqs[r].outcome # "backend"
            /\ Forwarded(reqs[r]) =>
                  /\ reqs[r].URLPath = <<"/", "not-found">>
                  /\ reqs[r].Header = <<>>
                  /\ reqs[r].URLHost \notin Addrs

CatchAllWitness ==
    \E r \in Requests :
        /\ reqs[r].via = "router"
        /\ reqs[r].pc = "forward"
        /\ reqs[r].URLPath = <<"/", "not-found">>

\* C8: with several requests in flight on the same srv and director, the
\* director's step for one request rewrites it from the Endpoint in its own
\* context and leaves every other request as it was; what goes to a backend
\* names the service of the request's own inbound path.
PerRequestIsolation ==
    /\ [](\A r \in Requests :
            reqs[r].outcome = "backend" =>
                /\ reqs[r].Header = <<"/", reqs[r].inPath[2]>>
                /\ reqs[r].URLHost = CtxEndpoint(reqs[r].ctx).Host)
    /\ [][\A r \in Requests :
            (reqs[r].pc = "proxy" /\ reqs'[r].pc = "forward") =>
                /\ \A q \in Requests \ {r} : reqs'[q] = reqs[q]
                /\ reqs'[r].ctx = reqs[r].ctx
                /\ IF HasEndpoint(reqs[r].ctx)
                   THEN RewrittenFor(reqs'[r], CtxEndpoint(reqs[r].ctx))
                   ELSE /\ reqs'[r].Header = reqs[r].Header
                        /\ reqs'[r].URLHost = reqs[r].URLHost]_vars

IsolationWitness ==
    \E r, q \in Requests :
        /\ r # q
        /\ reqs[r].outcome = "backend"
        /\ reqs[q].outcome = "backend"
        /\ reqs[r].Header # reqs[q].Header
        /\ reqs[r].URLHost # reqs[q].URLHost

Digits == {"0", "1", "2", "3", "4", "5", "6", "7", "8", "9"}

\* C9: on the index page a short name of length <= 3 that contains a digit
\* 0-9 is shown upper-cased, every other short name is shown unchanged, and
\* the link is built from the original name.
AcronymDisplay ==
    idx.pc = "done" =>
        \A i \in 1..Len(idx.out) :
            LET e == idx.out[i] IN
            /\ e.Name = IF Len(e.short) <= 3 /\ ContainsAny(e.short, Digits)
                        THEN ToUpper(e.short) ELSE e.short
            /\ e.Link \in { <<"/">> \o e.short \o <<"/">>,
                            <<"https://">> \o e.short \o <<".">> \o idx.domain }

\* C10: every request the handler chain took in ends forwarded to a backend,
\* on a dashboard page or on the not-found page, and the not-found path
\* re-enters the handler chain at most once.
EveryRequestTerminal ==
    \A r \in Requests :
        /\ reqs[r].pass <= 2
        /\ (reqs[r].admitted /\ reqs[r].pc = "done") =>
              reqs[r].outcome \in {"backend", "dashboard", "notfound"}

\* the part of the termination argument that does hold: the second pass
\* asks for /not-found, which the route table gives to notFoundHandler
ReentryBounded ==
    \A r \in Requests :
        /\ reqs[r].pass <= 2
        /\ reqs[r].pass = 2 => reqs[r].inPath # reqs[r].URLPath \/ reqs[r].inPath = <<"/", "not-found">>

====
